---------------------------- MODULE Spec2Model ----------------------------
(***************************************************************************)
(* Model of the financial-term dictionary: the Search UI Controller        *)
(* (src/App.tsx) and the Definition Provider                               *)
(* (src/services/geminiService.ts).                                        *)
(*                                                                         *)
(* Strings are sequences of symbols.  The string literals of the source    *)
(* are kept as atomic symbols, so that startsWith, trim, concatenation and *)
(* truthiness are computed on them as JavaScript computes them:            *)
(*   "P1"  'API 호출 중 오류가 발생했습니다:'            (App.tsx:115)               *)
(*   "P2"  '알 수 없는 오류가 발생하여'                 (App.tsx:115)               *)
(*   "S2"  ' 정의를 가져올 수 없습니다.'  (rest of geminiService.ts:37)           *)
(*   "F"   '알 수 없는 오류가 발생했습니다.'             (App.tsx:121)               *)
(*   "K"   'API 키가 설정되지 않았습니다. ...'          (geminiService.ts:16)      *)
(*   " "   a white-space character,  "x"  any other character.             *)
(* "F" and "K" start with neither "P1" nor "P2" in the source, as here.    *)
(***************************************************************************)
EXTENDS Integers, Sequences, FiniteSets, TLC

\* ---------------------------------------------------------------- bounds
MaxLen == 1        \* longest text the remote service generates
MaxMsgLen == 1     \* longest message of a thrown Error
MaxTermLen == 2    \* longest content of the input box
MaxCalls == 2      \* accepted submissions in one behaviour

\* --------------------------------------------------------------- strings
Chars == {"P1", "P2", "S2", " ", "x"}
TermChars == {" ", "x"}
WhiteSpace == {" "}

StrUpTo(A, n) == UNION {[1..k -> A] : k \in 0..n}

API_ERR_PREFIX == <<"P1">>
UNKNOWN_PREFIX == <<"P2">>
UNKNOWN_MSG == <<"P2", "S2">>
FALLBACK_MSG == <<"F">>
KEY_MSG == <<"K">>

\* String.prototype.startsWith
startsWith(s, p) == Len(p) <= Len(s) /\ SubSeq(s, 1, Len(p)) = p

RECURSIVE trimStart(_)
trimStart(s) == IF s # <<>> /\ Head(s) \in WhiteSpace THEN trimStart(Tail(s)) ELSE s

RECURSIVE trimEnd(_)
trimEnd(s) ==
    IF s # <<>> /\ s[Len(s)] \in WhiteSpace THEN trimEnd(SubSeq(s, 1, Len(s) - 1)) ELSE s

\* String.prototype.trim
trim(s) == trimEnd(trimStart(s))

\* ------------------------------------------------------ JavaScript values
JSString(s) == [tag |-> "string", msg |-> s]
JSError(m) == [tag |-> "Error", msg |-> m]      \* instanceof Error, .message = m
JSOther == [tag |-> "other", msg |-> <<>>]      \* a thrown value that is no Error

\* a nullable string of React state: null, or one string
Null == <<>>
Some(s) == <<s>>
\* JavaScript truthiness of a string | null
Truthy(v) == v # Null /\ v[1] # <<>>

\* how a promise settled
NoOutcome == [kind |-> "pending", val |-> JSOther]
Resolved(v) == [kind |-> "resolve", val |-> v]
Rejected(v) == [kind |-> "reject", val |-> v]

Texts == StrUpTo(Chars, MaxLen)
Messages == StrUpTo(Chars, MaxMsgLen)
Inputs == StrUpTo(TermChars, MaxTermLen)
Thrown == {JSError(m) : m \in Messages} \cup {JSOther}

\* ------------------------------------------------------------------ state
VARIABLES
    term,          \* SearchForm: content of the input box
    searchedTerm,  \* App state
    definition,    \* App state
    isLoading,     \* App state
    error,         \* App state
    apiKey,        \* whether process.env.API_KEY is set
    pending,       \* the handleSearch invocations suspended at their await
    calls,         \* invocations of getFinancialTermDefinition so far
    requests,      \* remote generateContent requests issued so far
    last           \* the handler that ran last, and the call it worked on

vars == <<term, searchedTerm, definition, isLoading, error, apiKey, pending,
          calls, requests, last>>
view == <<searchedTerm, definition, isLoading, error>>

NoCall == [id |-> 0, term |-> <<>>, pc |-> "none", remote |-> NoOutcome, outcome |-> NoOutcome]

Remove(q, i) == SubSeq(q, 1, i - 1) \o SubSeq(q, i + 1, Len(q))

\* ----------------------------------------------------- Definition Provider
\* mutant: the credential check left out
getFinancialTermDefinitionNoKeyCheck(t) ==
    [id |-> 0, term |-> t, pc |-> "remote", remote |-> NoOutcome, outcome |-> NoOutcome]

\* lines 15-22: the part of the provider that runs synchronously in the call
getFinancialTermDefinition(t) ==
    IF ~apiKey
    THEN [id |-> 0, term |-> t, pc |-> "settled", remote |-> NoOutcome,
          outcome |-> Rejected(JSString(KEY_MSG))]
    ELSE [id |-> 0, term |-> t, pc |-> "remote", remote |-> NoOutcome, outcome |-> NoOutcome]

\* mutant: the catch block throws the failure on
providerCatchRethrows(e) == Rejected(e)

\* mutant: the failure's message left out of the encoded string
providerCatchDropsMessage(e) ==
    IF e.tag = "Error"
    THEN Resolved(JSString(API_ERR_PREFIX))
    ELSE Resolved(JSString(UNKNOWN_MSG))

\* lines 32-38: the catch block of the provider
providerCatch(e) ==
    IF e.tag = "Error"
    THEN Resolved(JSString(API_ERR_PREFIX \o <<" ">> \o e.msg))
    ELSE Resolved(JSString(UNKNOWN_MSG))

\* lines 22-38: the provider resumed with the remote call's outcome r
providerResume(r) ==
    IF r.kind = "resolve" THEN Resolved(r.val) ELSE providerCatch(r.val)

providerSettles(i, r) ==
    /\ i \in DOMAIN pending
    /\ pending[i].pc = "remote"
    /\ pending' = [pending EXCEPT ![i] =
                     [@ EXCEPT !.pc = "settled", !.remote = r,
                               !.outcome = providerResume(r)]]
    /\ last' = [op |-> "provider", call |-> pending'[i]]
    /\ UNCHANGED <<term, view, apiKey, calls, requests>>

\* ai.models.generateContent resolves; response.text is any text
generateContentResolves ==
    \E i \in DOMAIN pending, s \in Texts : providerSettles(i, Resolved(JSString(s)))

\* mutant: a failed remote request is issued again
generateContentThrowsRetries ==
    \E i \in DOMAIN pending :
        /\ pending[i].pc = "remote"
        /\ requests <= MaxCalls
        /\ requests' = requests + 1
        /\ last' = [op |-> "provider", call |-> pending[i]]
        /\ UNCHANGED <<term, view, apiKey, pending, calls>>

\* ai.models.generateContent throws
generateContentThrows ==
    \E i \in DOMAIN pending, e \in Thrown : providerSettles(i, Rejected(e))

\* --------------------------------------------------- Search UI Controller
\* App.tsx:128-139
renderContent ==
    IF isLoading THEN "Loading"
    ELSE IF Truthy(error) THEN "Error"
    ELSE IF Truthy(definition) /\ Truthy(searchedTerm) THEN "Success"
    ELSE "Idle"

\* mutant: only the first prefix sniffed
isServiceErrorFirstPrefixOnly(result) == startsWith(result, API_ERR_PREFIX)

\* App.tsx:115
isServiceError(result) ==
    startsWith(result, API_ERR_PREFIX) \/ startsWith(result, UNKNOWN_PREFIX)

\* App.tsx:121
catchMessage(e) == IF e.tag = "Error" THEN e.msg ELSE FALLBACK_MSG

\* mutant: the input tested without trimming
submitAcceptedUntrimmed(input, loading) == ~(input = <<>> \/ loading)

\* mutant: the loading flag not tested
submitAcceptedWhileLoading(input, loading) == ~(trim(input) = <<>>)

\* App.tsx:27: the guard of handleSubmit
submitAccepted(input, loading) == ~(trim(input) = <<>> \/ loading)

\* App.tsx:40.  The handlers are modelled by their code: the disabled
\* attributes of the input and the button (App.tsx:41, 46) keep a user from
\* typing or clicking, they do not keep an event from being dispatched.
onChange ==
    /\ \E v \in Inputs : term' = v
    /\ last' = [op |-> "onChange", call |-> NoCall]
    /\ UNCHANGED <<view, apiKey, pending, calls, requests>>

\* mutant: the previous definition not cleared
handleSearchStartKeepsDefinition(t, c) ==
    /\ isLoading' = TRUE
    /\ error' = Null
    /\ searchedTerm' = Some(t)
    /\ pending' = Append(pending, [c EXCEPT !.id = calls + 1])
    /\ calls' = calls + 1
    /\ requests' = requests + (IF c.pc = "remote" THEN 1 ELSE 0)
    /\ last' = [op |-> "handleSubmit", call |-> [c EXCEPT !.id = calls + 1]]
    /\ UNCHANGED definition

\* App.tsx:107-113: handleSearch up to its await, with the provider call c.
\* The call is numbered by the order of its submission (id).
handleSearchStart(t, c) ==
    /\ isLoading' = TRUE
    /\ error' = Null
    /\ definition' = Null
    /\ searchedTerm' = Some(t)
    /\ pending' = Append(pending, [c EXCEPT !.id = calls + 1])
    /\ calls' = calls + 1
    /\ requests' = requests + (IF c.pc = "remote" THEN 1 ELSE 0)
    /\ last' = [op |-> "handleSubmit", call |-> [c EXCEPT !.id = calls + 1]]

\* App.tsx:25-29
handleSubmit ==
    /\ IF submitAccepted(term, isLoading)
       THEN /\ calls < MaxCalls
            /\ handleSearchStart(trim(term), getFinancialTermDefinition(trim(term)))
       ELSE /\ last' = [op |-> "handleSubmit", call |-> NoCall]
            /\ UNCHANGED <<view, pending, calls, requests>>
    /\ UNCHANGED <<term, apiKey>>

\* mutant: the finally block left out, the loading flag never cleared
handleSearchResumeKeepsLoading ==
    \E i \in DOMAIN pending :
        /\ pending[i].pc = "settled"
        /\ LET o == pending[i].outcome IN
             IF o.kind = "resolve"
             THEN IF isServiceError(o.val.msg)
                  THEN error' = Some(o.val.msg) /\ UNCHANGED definition
                  ELSE definition' = Some(o.val.msg) /\ UNCHANGED error
             ELSE error' = Some(catchMessage(o.val)) /\ UNCHANGED definition
        /\ pending' = Remove(pending, i)
        /\ last' = [op |-> "handleSearch", call |-> pending[i]]
        /\ UNCHANGED <<term, searchedTerm, isLoading, apiKey, calls, requests>>

\* App.tsx:113-125: handleSearch resumed after its await
handleSearchResume ==
    \E i \in DOMAIN pending :
        /\ pending[i].pc = "settled"
        /\ LET o == pending[i].outcome IN
             IF o.kind = "resolve"
             THEN IF isServiceError(o.val.msg)
                  THEN error' = Some(o.val.msg) /\ UNCHANGED definition
                  ELSE definition' = Some(o.val.msg) /\ UNCHANGED error
             ELSE error' = Some(catchMessage(o.val)) /\ UNCHANGED definition
        /\ isLoading' = FALSE
        /\ pending' = Remove(pending, i)
        /\ last' = [op |-> "handleSearch", call |-> pending[i]]
        /\ UNCHANGED <<term, searchedTerm, apiKey, calls, requests>>

\* ---------------------------------------------------------- specification
Init ==
    /\ term = <<>>
    /\ searchedTerm = Null
    /\ definition = Null
    /\ isLoading = FALSE
    /\ error = Null
    /\ apiKey \in BOOLEAN
    /\ pending = <<>>
    /\ calls = 0
    /\ requests = 0
    /\ last = [op |-> "init", call |-> NoCall]

Next ==
    \/ onChange
    \/ handleSubmit
    \/ generateContentResolves
    \/ generateContentThrows
    \/ handleSearchResume

Spec == Init /\ [][Next]_vars

\* Every remote call settles in the end (the assumption under which
\* progress is claimed), and a settled promise's continuation is run by the
\* event loop (App.tsx:113).
SpecLive ==
    /\ Spec
    /\ WF_vars(generateContentResolves \/ generateContentThrows)
    /\ WF_vars(handleSearchResume)

\* ------------------------------------------- the Controller on its own
\* handleSearch awaits a promise (App.tsx:113) and handles both its value
\* (App.tsx:115-119) and its rejection (App.tsx:120-122).  Here the promise
\* is any promise of a string: it resolves with any text or rejects with any
\* value, as for a Controller exercised apart from the Provider.
anyPromise(t) ==
    [id |-> 0, term |-> t, pc |-> "awaited", remote |-> NoOutcome, outcome |-> NoOutcome]

RejectValues == Thrown \cup {JSString(m) : m \in Messages}

handleSubmitCtl ==
    /\ IF submitAccepted(term, isLoading)
       THEN /\ calls < MaxCalls
            /\ handleSearchStart(trim(term), anyPromise(trim(term)))
       ELSE /\ last' = [op |-> "handleSubmit", call |-> NoCall]
            /\ UNCHANGED <<view, pending, calls, requests>>
    /\ UNCHANGED <<term, apiKey>>

promiseSettles(i, o) ==
    /\ i \in DOMAIN pending
    /\ pending[i].pc = "awaited"
    /\ pending' = [pending EXCEPT ![i] = [@ EXCEPT !.pc = "settled", !.outcome = o]]
    /\ last' = [op |-> "provider", call |-> pending'[i]]
    /\ UNCHANGED <<term, view, apiKey, calls, requests>>

promiseResolves ==
    \E i \in DOMAIN pending, s \in Texts : promiseSettles(i, Resolved(JSString(s)))

promiseRejects ==
    \E i \in DOMAIN pending, e \in RejectValues : promiseSettles(i, Rejected(e))

NextCtl ==
    \/ onChange
    \/ handleSubmitCtl
    \/ promiseResolves
    \/ promiseRejects
    \/ handleSearchResume

SpecCtl == Init /\ [][NextCtl]_vars

\* ------------------------------------------------------------ properties
\* the provider calls that have settled: those awaiting their handleSearch,
\* and the one the last handler worked on
SettledCalls ==
    {pending[i] : i \in {j \in DOMAIN pending : pending[j].pc = "settled"}}
        \cup (IF last.call.pc = "settled" THEN {last.call} ELSE {})

\* handleSearch has just finished the call whose promise resolved with a string
ResumedWithString ==
    last.op = "handleSearch" /\ last.call.outcome.kind = "resolve"

\* C1: when the provider call of a submission of term t resolves with a
\* string s that starts with neither error prefix (the empty string
\* included), handleSearch ends with the view in Success, showing t and s.
C1_PlainResultShowsSuccess ==
    (/\ ResumedWithString
     /\ ~startsWith(last.call.outcome.val.msg, API_ERR_PREFIX)
     /\ ~startsWith(last.call.outcome.val.msg, UNKNOWN_PREFIX))
        => /\ renderContent = "Success"
           /\ searchedTerm = Some(last.call.term)
           /\ definition = Some(last.call.outcome.val.msg)

\* C2: when the provider call resolves with a string that starts with the
\* API-error prefix or equals the unknown-error message, handleSearch ends
\* with the view in Error, the message being that string, and no definition
\* is stored.
C2_EncodedErrorShowsError ==
    (/\ ResumedWithString
     /\ \/ startsWith(last.call.outcome.val.msg, API_ERR_PREFIX)
        \/ last.call.outcome.val.msg = UNKNOWN_MSG)
        => /\ renderContent = "Error"
           /\ error = Some(last.call.outcome.val.msg)
           /\ definition = Null

C2_Witness ==
    /\ ResumedWithString
    /\ last.call.outcome.val.msg = UNKNOWN_MSG
    /\ renderContent = "Error"
    /\ calls = 2

C4_SubmitEntersLoading ==
    [][(/\ last'.op = "handleSubmit"
        /\ renderContent \in {"Idle", "Success", "Error"}
        /\ trim(term) # <<>>)
           => /\ renderContent' = "Loading"
              /\ isLoading'
              /\ definition' = Null
              /\ error' = Null
              /\ searchedTerm' = Some(trim(term))
              /\ calls' = calls + 1
              /\ Len(pending') = Len(pending) + 1
              /\ pending'[Len(pending')].term = trim(term)
              /\ SubSeq(pending', 1, Len(pending)) = pending]_vars

C4_Witness ==
    /\ last.op = "handleSubmit"
    /\ last.call # NoCall
    /\ calls = 2
    /\ term # trim(term)
    /\ renderContent = "Loading"

\* C5: a submission of an empty or white-space-only input changes nothing,
\* whatever the view state: the loading flag, the stored term, definition
\* and error stay as they are and no provider call is started.
C5_BlankSubmitIsNoOp ==
    [][(last'.op = "handleSubmit" /\ trim(term) = <<>>)
           => UNCHANGED <<view, pending, calls, requests>>]_vars

C5_Witness ==
    /\ last.op = "handleSubmit"
    /\ last.call = NoCall
    /\ term # <<>>
    /\ trim(term) = <<>>
    /\ renderContent = "Success"

\* C6: a submission made while the view is Loading changes nothing: the
\* stored term, definition, error and loading flag stay as they are and no
\* second provider call is started.
C6_SubmitWhileLoadingIsNoOp ==
    [][(last'.op = "handleSubmit" /\ isLoading)
           => UNCHANGED <<view, pending, calls, requests>>]_vars

C6_Witness ==
    /\ last.op = "handleSubmit"
    /\ last.call = NoCall
    /\ isLoading
    /\ trim(term) # <<>>
    /\ searchedTerm # Some(trim(term))
    /\ calls < MaxCalls

\* C7: without the credential every provider call rejects with the fixed
\* configuration message and no remote request is issued.
C7_NoKeyNoRequest ==
    ~apiKey =>
        /\ requests = 0
        /\ \A i \in DOMAIN pending :
              /\ pending[i].pc = "settled"
              /\ pending[i].outcome = Rejected(JSString(KEY_MSG))
        /\ last.call # NoCall => last.call.outcome = Rejected(JSString(KEY_MSG))

C7_Witness ==
    /\ ~apiKey
    /\ calls = 2
    /\ pending # <<>>

\* C8: without the credential every accepted submission ends with the view
\* in Error, the message shown being the provider's fixed
\* credential-not-configured message.
C8_NoKeyShowsKeyMessage ==
    (~apiKey /\ last.op = "handleSearch")
        => /\ renderContent = "Error"
           /\ error = Some(KEY_MSG)

\* C9: in every case (credential missing, remote failure with or without a
\* message, success) the provider call resolves with a plain string and
\* never rejects.
C9_ProviderNeverRejects ==
    \A c \in SettledCalls :
        c.outcome.kind = "resolve" /\ c.outcome.val.tag = "string"

\* C9, amended: with the credential present the provider call resolves with
\* a plain string in every case (remote failure with or without a message,
\* success) and never rejects; with the credential missing it rejects, with
\* the fixed message as a plain string.
C9_ProviderRejectsOnlyWithoutKey ==
    \A c \in SettledCalls :
        /\ c.outcome.val.tag = "string"
        /\ apiKey => c.outcome.kind = "resolve"
        /\ ~apiKey => c.outcome.kind = "reject"

C9_Witness ==
    /\ apiKey
    /\ \E c \in SettledCalls :
          /\ c.remote.kind = "reject"
          /\ c.outcome.kind = "resolve"

\* C10: when the remote call fails, the provider resolves with the
\* API-error prefix, a space and the failure's message if the failure is an
\* Error, and with the unknown-error message otherwise; when the remote call
\* succeeds it resolves with the generated text unchanged.
C10_ProviderEncoding ==
    \A c \in SettledCalls :
        /\ (c.remote.kind = "reject" /\ c.remote.val.tag = "Error")
              => c.outcome = Resolved(JSString(<<"P1", " ">> \o c.remote.val.msg))
        /\ (c.remote.kind = "reject" /\ c.remote.val.tag # "Error")
              => c.outcome = Resolved(JSString(<<"P2", "S2">>))
        /\ c.remote.kind = "resolve" => c.outcome = c.remote

C10_Witness ==
    \E c \in SettledCalls :
        /\ c.remote.kind = "reject"
        /\ c.remote.val.tag = "Error"
        /\ c.remote.val.msg # <<>>
        /\ last.op = "handleSearch"
        /\ error = Some(c.outcome.val.msg)


\* C11: exactly one view state is active: while the loading flag is set the
\* stored definition and the stored error are both null, and the stored
\* definition and the stored error are never both non-null.
C11_OneViewState ==
    /\ isLoading => (definition = Null /\ error = Null)
    /\ ~(definition # Null /\ error # Null)

C11_Witness ==
    /\ isLoading
    /\ calls = 2
    /\ last.op = "provider"
    /\ last.call.id = 2

\* C12: Loading is entered, and a provider call started, only by a
\* submission of an input whose trimmed form is not empty, made while no
\* request is in flight; so at most one provider call is outstanding.
C12_OneCallInFlight ==
    /\ [](Len(pending) <= 1)
    /\ [][((~isLoading /\ isLoading') \/ calls' # calls \/ pending' # pending)
             => \/ /\ last'.op = "handleSubmit"
                   /\ trim(term) # <<>>
                   /\ ~isLoading
                   /\ pending = <<>>
                   /\ isLoading'
                \/ /\ last'.op \in {"provider", "handleSearch"}
                   /\ isLoading' = (pending' # <<>>)
                   /\ calls' = calls]_vars

C12_Witness ==
    /\ isLoading
    /\ Len(pending) = 1
    /\ pending[1].id = 2
    /\ last.op = "handleSubmit"
    /\ last.call = NoCall

\* C13: a submission of a new term made while a request is outstanding is
\* accepted: it starts a second provider call beside the first.
C13_SubmitWhileOutstandingAccepted ==
    [][(/\ last'.op = "handleSubmit"
        /\ pending # <<>>
        /\ trim(term) # <<>>
        /\ calls < MaxCalls)
           => /\ calls' = calls + 1
              /\ Len(pending') = Len(pending) + 1]_vars

\* C13, amended: a submission made while a request is outstanding is
\* ignored, so the call that completes is always that of the latest accepted
\* submission: the view never shows the result of an earlier submission
\* after a later one was accepted.
C13_NoStaleResult ==
    /\ \A i \in DOMAIN pending : pending[i].id = calls
    /\ last.op = "handleSearch" => (last.call.id = calls /\ pending = <<>>)

C13_Witness ==
    /\ last.op = "handleSearch"
    /\ last.call.id = 2
    /\ renderContent = "Success"
    /\ trim(term) # last.call.term
    /\ trim(term) # <<>>

\* C14: when the provider call settles the view is Success or Error, never
\* Idle; Idle is shown only before the first accepted submission.
C14_NoReturnToIdle ==
    /\ last.op = "handleSearch" => renderContent \in {"Success", "Error"}
    /\ renderContent = "Idle" => calls = 0

\* C16: every accepted submission starts one provider call and every
\* provider call issues at most one remote request, whatever fails: the
\* remote requests never outnumber the accepted submissions.
C16_NoRetries ==
    /\ requests <= calls
    /\ apiKey => requests = calls

C16_Witness ==
    /\ requests = 2
    /\ last.op = "handleSearch"
    /\ last.call.id = 2
    /\ last.call.remote.kind = "reject"

\* C17: a definition is stored only as the result of the provider call that
\* was made with the stored term, and the stored term changes only with the
\* definition cleared; so in Success the term displayed and the definition
\* displayed belong to the same submission.
C17_TermMatchesDefinition ==
    [][/\ (last'.op = "handleSearch" /\ definition' # Null)
            => /\ searchedTerm' = Some(last'.call.term)
               /\ definition' = Some(last'.call.outcome.val.msg)
               /\ last'.call.outcome.kind = "resolve"
       /\ (last'.op # "handleSearch" /\ definition' # Null)
            => UNCHANGED <<searchedTerm, definition>>]_vars

C17_Witness ==
    /\ renderContent = "Success"
    /\ last.op = "handleSearch"
    /\ last.call.id = 2
    /\ searchedTerm = Some(last.call.term)
    /\ searchedTerm # Some(term)

\* C15: whenever handleSearch finishes a settled call the loading flag is
\* cleared; so, every provider call settling in the end, every Loading state
\* is followed by a state that is not Loading, in which the submission of
\* any input with a non-empty trimmed form is accepted.
C15_LoadingEnds ==
    /\ [][last'.op = "handleSearch" => ~isLoading']_vars
    /\ isLoading ~> (/\ ~isLoading
                     /\ \A v \in Inputs :
                           trim(v) # <<>> => submitAccepted(v, isLoading))

C15_Witness ==
    /\ isLoading
    /\ last.op = "handleSubmit"
    /\ last.call.id = 2
    /\ searchedTerm = Some(last.call.term)

=============================================================================
